---- MODULE Spec2Model ----
(***************************************************************************)
(* Model of python_agent_api/main.py: the JSON-to-XLSX conversion service. *)
(* (cleanup_expired_files, download_file, list_files and cleanup_all_files *)
(* of main_backup.py are the same code, line for line.)                    *)
(*                                                                         *)
(* Threads.  The service has two threads that touch the registry           *)
(* temp_files and the files of TEMP_DIR:                                   *)
(*   - the event loop, which runs the request handlers.  Every handler is  *)
(*     an "async def" without a single await (main.py 242, 387, 409, 429), *)
(*     so a handler runs to its return before the next handler starts:     *)
(*     at most one handler is in progress;                                 *)
(*   - the cleanup thread (main.py 233-239), which interleaves with the    *)
(*     handler in progress between any two of its statements.              *)
(* Besides them the environment acts: the clock advances, and files of     *)
(* TEMP_DIR can be deleted from outside the service.                       *)
(*                                                                         *)
(* temp_files is a Python dict.  Ids are uuid4 values, modelled as the     *)
(* values of a counter, so the dict's insertion order is the order of the  *)
(* ids.  An iteration over the dict raises RuntimeError at the next step   *)
(* at which the dict's size differs from its size when the iteration       *)
(* began.                                                                  *)
(***************************************************************************)
EXTENDS Integers, Sequences, FiniteSets, TLC

\* ---------------------------------------------------------------- bounds
MaxIds == 2
MaxTime == 3
MaxJson == 2

\* ------------------------------------------------------ program constants
\* timedelta(hours=1), in hours
TTL == 1
\* json_size > 100000: direct conversion
LargeJsonLimit == 100000
\* json_size > 50000: the payload goes to a scratch file
MediumJsonLimit == 50000
\* request.json_data[:500]
PreviewLen == 500

\* Payload lengths the requests are drawn from: both sides of each limit.
Lengths == {2, 50000, 50001, 100000, 100001}

\* File names the producer may choose for the workbooks it writes.
CandNames == {"a.xlsx", "b.xlsx"}
\* The name direct_json_to_excel gives its workbook (xlsx_filename).
DirectName == "data_processed.xlsx"
\* Modification times of the files the producer writes.
MTimes == {1, 2}

VARIABLES
    temp_files,     \* the registry: file_id -> [path, filename, created_at, original_json]
    disk,           \* the *.xlsx files of TEMP_DIR: records [id, name, mtime]
    json_files,     \* how many temp_<uuid>.json scratch files TEMP_DIR holds
    now,            \* datetime.now(), in hours
    nextId,         \* the next value uuid.uuid4() returns
    \* the cleanup thread
    spc,            \* its position
    current_time,   \* cleanup_expired_files: current_time
    expired_files,  \* cleanup_expired_files: expired_files
    sidx,           \* the last id the scan visited / the index in expired_files
    file_path,      \* cleanup_expired_files: file_path
    ssize,          \* the dict's size when the scan began
    serr,           \* the exception that ended the thread, "none" while it runs
    \* the event loop: the handler in progress
    hpc,            \* its position, "idle" between two requests
    hreq,           \* the request
    hloc,           \* the handler's locals
    hres,           \* the response (or the exception that leaves the handler)
    issued          \* the file ids the success responses of /process carried, in order

vars == <<temp_files, disk, json_files, now, nextId, spc, current_time,
          expired_files, sidx, file_path, ssize, serr, hpc, hreq, hloc, hres, issued>>

storeVars == <<temp_files, disk, json_files, now, nextId>>
sweepVars == <<spc, current_time, expired_files, sidx, file_path, ssize, serr>>
handlerVars == <<hpc, hreq, hloc, hres, issued>>

\* ---------------------------------------------------------------- helpers
Ids == 1..MaxIds

Path(i, n) == [id |-> i, name |-> n]

\* os.path.exists(path) for a workbook path
Exists(p) == \E f \in disk : f.id = p.id /\ f.name = p.name

\* the file at path p
FileAt(p) == CHOOSE f \in disk : f.id = p.id /\ f.name = p.name

\* os.remove(path), when it succeeds
RemoveFile(p) == {f \in disk : ~(f.id = p.id /\ f.name = p.name)}

\* len(temp_files)
DictSize == Cardinality(DOMAIN temp_files)

\* del temp_files[file_id]
DictDel(i) == [k \in (DOMAIN temp_files) \ {i} |-> temp_files[k]]

\* temp_files[file_id] = info
DictSet(i, info) == [k \in (DOMAIN temp_files) \cup {i} |->
                        IF k = i THEN info ELSE temp_files[k]]

\* The live ids a dict iterator standing after id i has still to visit.
Later(i) == {k \in DOMAIN temp_files : k > i}

Min(S) == CHOOSE x \in S : \A y \in S : x <= y

\* The ids of a dict in iteration (insertion) order.
RECURSIVE OrderFrom(_, _)
OrderFrom(d, i) ==
    LET rest == {k \in d : k > i}
    IN  IF rest = {} THEN <<>> ELSE <<Min(rest)>> \o OrderFrom(d, Min(rest))

NoReq == [op |-> "none"]
NoLoc == [x |-> 0]
NoRes == [status |-> "none"]

NoPath == Path(0, "none")

\* ------------------------------------------------------------------ Init
Init ==
    /\ temp_files = <<>>
    /\ disk = {}
    /\ json_files = 0
    /\ now = 0
    /\ nextId = 1
    /\ spc = "sleep"
    /\ current_time = 0
    /\ expired_files = <<>>
    /\ sidx = 0
    /\ file_path = NoPath
    /\ ssize = 0
    /\ serr = "none"
    /\ hpc = "idle"
    /\ hreq = NoReq
    /\ hloc = NoLoc
    /\ hres = NoRes
    /\ issued = <<>>

\* ------------------------------------------------------- the environment
\* An hour passes.
Tick ==
    /\ now < MaxTime
    /\ now' = now + 1
    /\ UNCHANGED <<temp_files, disk, json_files, nextId>>
    /\ UNCHANGED sweepVars
    /\ UNCHANGED handlerVars

\* A workbook of TEMP_DIR is deleted from outside the service.
external_delete ==
    /\ \E f \in disk : disk' = disk \ {f}
    /\ UNCHANGED <<temp_files, json_files, now, nextId>>
    /\ UNCHANGED sweepVars
    /\ UNCHANGED handlerVars

\* ---------------------------------------------------- the cleanup thread
\* current_time - file_info['created_at'] > timedelta(hours=1)
IsExpiredStrictMutant(info, t) == t - info.created_at >= TTL
IsExpired(info, t) == t - info.created_at > TTL

\* An exception leaves cleanup_expired_files and periodic_cleanup, which
\* catches nothing: the thread ends.
SweeperDies(e) ==
    /\ spc' = "dead"
    /\ serr' = e

\* The pass moves to the next id of expired_files, or returns to the sleep
\* of periodic_cleanup.
SweeperAdvance ==
    IF sidx < Len(expired_files)
    THEN /\ spc' = "read"
         /\ sidx' = sidx + 1
    ELSE /\ spc' = "sleep"
         /\ sidx' = 0

\* time.sleep(300) returns; cleanup_expired_files starts its scan.
periodic_cleanup ==
    /\ spc = "sleep"
    /\ spc' = "scan"
    /\ current_time' = now
    /\ expired_files' = <<>>
    /\ sidx' = 0
    /\ ssize' = DictSize
    /\ UNCHANGED <<file_path, serr>>
    /\ UNCHANGED storeVars
    /\ UNCHANGED handlerVars

\* One step of "for file_id, file_info in temp_files.items()".
cleanup_scan ==
    /\ spc = "scan"
    /\ IF DictSize # ssize
       THEN /\ SweeperDies("RuntimeError")
            /\ UNCHANGED <<expired_files, sidx>>
       ELSE IF Later(sidx) = {}
       THEN /\ IF expired_files = <<>>
               THEN spc' = "sleep" /\ sidx' = 0
               ELSE spc' = "read" /\ sidx' = 1
            /\ UNCHANGED <<expired_files, serr>>
       ELSE LET i == Min(Later(sidx))
            IN  /\ expired_files' = IF IsExpired(temp_files[i], current_time)
                                    THEN Append(expired_files, i)
                                    ELSE expired_files
                /\ sidx' = i
                /\ UNCHANGED <<spc, serr>>
    /\ UNCHANGED <<current_time, file_path, ssize>>
    /\ UNCHANGED storeVars
    /\ UNCHANGED handlerVars

\* file_path = temp_files[file_id]['path']
cleanup_read ==
    /\ spc = "read"
    /\ LET i == expired_files[sidx]
       IN  IF i \in DOMAIN temp_files
           THEN /\ file_path' = temp_files[i].path
                /\ spc' = "exists"
                /\ UNCHANGED serr
           ELSE /\ SweeperDies("KeyError")
                /\ UNCHANGED file_path
    /\ UNCHANGED <<current_time, expired_files, sidx, ssize>>
    /\ UNCHANGED storeVars
    /\ UNCHANGED handlerVars

\* if os.path.exists(file_path):
cleanup_exists ==
    /\ spc = "exists"
    /\ spc' = IF Exists(file_path) THEN "remove" ELSE "check"
    /\ UNCHANGED <<current_time, expired_files, sidx, file_path, ssize, serr>>
    /\ UNCHANGED storeVars
    /\ UNCHANGED handlerVars

\* try: os.remove(file_path) / except: pass
cleanup_remove ==
    /\ spc = "remove"
    /\ \/ /\ Exists(file_path)
          /\ disk' = RemoveFile(file_path)
       \/ disk' = disk
    /\ spc' = "check"
    /\ UNCHANGED <<current_time, expired_files, sidx, file_path, ssize, serr>>
    /\ UNCHANGED <<temp_files, json_files, now, nextId>>
    /\ UNCHANGED handlerVars

\* if file_id in temp_files:
cleanup_check ==
    /\ spc = "check"
    /\ IF expired_files[sidx] \in DOMAIN temp_files
       THEN spc' = "del" /\ UNCHANGED sidx
       ELSE SweeperAdvance
    /\ UNCHANGED <<current_time, expired_files, file_path, ssize, serr>>
    /\ UNCHANGED storeVars
    /\ UNCHANGED handlerVars

\* del temp_files[file_id]
cleanup_del ==
    /\ spc = "del"
    /\ LET i == expired_files[sidx]
       IN  IF i \in DOMAIN temp_files
           THEN /\ temp_files' = DictDel(i)
                /\ SweeperAdvance
                /\ UNCHANGED serr
           ELSE /\ SweeperDies("KeyError")
                /\ UNCHANGED <<temp_files, sidx>>
    /\ UNCHANGED <<current_time, expired_files, file_path, ssize>>
    /\ UNCHANGED <<disk, json_files, now, nextId>>
    /\ UNCHANGED handlerVars

cleanup_expired_files ==
    \/ cleanup_scan
    \/ cleanup_read
    \/ cleanup_exists
    \/ cleanup_remove
    \/ cleanup_check
    \/ cleanup_del

\* ----------------------------------------------------------- the handlers
\* A handler leaves with its response (or its exception, which the
\* framework turns into a response of status 500).
Respond(r) ==
    /\ hres' = r
    /\ hpc' = "done"

\* The response is sent; the event loop is free for the next request.
handler_return ==
    /\ hpc = "done"
    /\ hpc' = "idle"
    /\ hreq' = NoReq
    /\ hloc' = NoLoc
    /\ hres' = NoRes
    /\ UNCHANGED issued
    /\ UNCHANGED storeVars
    /\ UNCHANGED sweepVars

\* ---- GET /download/{file_id}
NotFound(d) == [status |-> "404", detail |-> d]
ServerError(e) == [status |-> "500", detail |-> e]

\* if file_id not in temp_files: raise HTTPException(404)
download_file(i) ==
    /\ hpc = "idle"
    /\ hreq' = [op |-> "download", file_id |-> i]
    /\ IF i \in DOMAIN temp_files
       THEN /\ hpc' = "dl_read"
            /\ UNCHANGED hres
       ELSE Respond(NotFound("File not found or expired"))
    /\ UNCHANGED <<hloc, issued>>
    /\ UNCHANGED storeVars
    /\ UNCHANGED sweepVars

\* file_info = temp_files[file_id]; file_path = file_info['path']
download_read_TouchesEntryMutant ==
    /\ hpc = "dl_read"
    /\ IF hreq.file_id \in DOMAIN temp_files
       THEN /\ hloc' = [file_info |-> temp_files[hreq.file_id]]
            /\ temp_files' = [temp_files EXCEPT ![hreq.file_id].created_at = now]
            /\ hpc' = "dl_exists"
            /\ UNCHANGED hres
       ELSE /\ Respond(ServerError("KeyError"))
            /\ UNCHANGED <<hloc, temp_files>>
    /\ UNCHANGED <<hreq, issued>>
    /\ UNCHANGED <<disk, json_files, now, nextId>>
    /\ UNCHANGED sweepVars
download_read ==
    /\ hpc = "dl_read"
    /\ IF hreq.file_id \in DOMAIN temp_files
       THEN /\ hloc' = [file_info |-> temp_files[hreq.file_id]]
            /\ hpc' = "dl_exists"
            /\ UNCHANGED hres
       ELSE /\ Respond(ServerError("KeyError"))
            /\ UNCHANGED hloc
    /\ UNCHANGED <<hreq, issued>>
    /\ UNCHANGED storeVars
    /\ UNCHANGED sweepVars

\* if not os.path.exists(file_path): ... else return FileResponse(...)
download_exists ==
    /\ hpc = "dl_exists"
    /\ IF Exists(hloc.file_info.path)
       THEN Respond([status |-> "200", path |-> hloc.file_info.path,
                     filename |-> hloc.file_info.filename])
       ELSE /\ hpc' = "dl_prune"
            /\ UNCHANGED hres
    /\ UNCHANGED <<hreq, hloc, issued>>
    /\ UNCHANGED storeVars
    /\ UNCHANGED sweepVars

\* if file_id in temp_files:
download_prune ==
    /\ hpc = "dl_prune"
    /\ IF hreq.file_id \in DOMAIN temp_files
       THEN /\ hpc' = "dl_del"
            /\ UNCHANGED hres
       ELSE Respond(NotFound("File not found on disk"))
    /\ UNCHANGED <<hreq, hloc, issued>>
    /\ UNCHANGED storeVars
    /\ UNCHANGED sweepVars

\* del temp_files[file_id]; raise HTTPException(404)
download_del_KeepsEntryMutant ==
    /\ hpc = "dl_del"
    /\ Respond(NotFound("File not found on disk"))
    /\ UNCHANGED temp_files
    /\ UNCHANGED <<hreq, hloc, issued>>
    /\ UNCHANGED <<disk, json_files, now, nextId>>
    /\ UNCHANGED sweepVars
download_del ==
    /\ hpc = "dl_del"
    /\ IF hreq.file_id \in DOMAIN temp_files
       THEN /\ temp_files' = DictDel(hreq.file_id)
            /\ Respond(NotFound("File not found on disk"))
       ELSE /\ Respond(ServerError("KeyError"))
            /\ UNCHANGED temp_files
    /\ UNCHANGED <<hreq, hloc, issued>>
    /\ UNCHANGED <<disk, json_files, now, nextId>>
    /\ UNCHANGED sweepVars

\* ---- GET /files
\* One entry of file_list.
ListItem(i) == [file_id |-> i,
                filename |-> temp_files[i].filename,
                created_at |-> temp_files[i].created_at,
                download_url |-> <<"/download/", i>>]

\* file_list = []; the iteration over temp_files.items() begins
list_files ==
    /\ hpc = "idle"
    /\ hreq' = [op |-> "list"]
    /\ hloc' = [file_list |-> <<>>, idx |-> 0, size |-> DictSize]
    /\ hpc' = "ls_iter"
    /\ UNCHANGED <<hres, issued>>
    /\ UNCHANGED storeVars
    /\ UNCHANGED sweepVars

\* One step of "for file_id, file_info in temp_files.items()", and the
\* return after the last one.
list_next ==
    /\ hpc = "ls_iter"
    /\ IF DictSize # hloc.size
       THEN /\ Respond(ServerError("RuntimeError"))
            /\ UNCHANGED hloc
       ELSE IF Later(hloc.idx) = {}
       THEN /\ Respond([status |-> "200", success |-> TRUE,
                        files |-> hloc.file_list, count |-> Len(hloc.file_list)])
            /\ UNCHANGED hloc
       ELSE LET i == Min(Later(hloc.idx))
            IN  /\ hloc' = [hloc EXCEPT !.file_list = Append(@, ListItem(i)),
                                        !.idx = i]
                /\ UNCHANGED <<hpc, hres>>
    /\ UNCHANGED <<hreq, issued>>
    /\ UNCHANGED storeVars
    /\ UNCHANGED sweepVars

\* ---- DELETE /cleanup
\* list(temp_files.items())
Items == LET ids == OrderFrom(DOMAIN temp_files, 0)
         IN  [k \in 1..Len(ids) |-> [file_id |-> ids[k], file_info |-> temp_files[ids[k]]]]

\* return {'success': True, 'message': f'Cleaned up {files_deleted} files'}
Cleaned(n) == [status |-> "200", success |-> TRUE, files_deleted |-> n]
\* except Exception as e: return {'success': False, 'error': str(e)}
CleanFailed(e) == [status |-> "200", success |-> FALSE, error |-> e]

\* The loop of cleanup_all_files moves to the next item, or returns.
CleanAdvance(n) ==
    IF hloc.idx < Len(hloc.items)
    THEN /\ hloc' = [hloc EXCEPT !.idx = @ + 1, !.files_deleted = n]
         /\ hpc' = "cl_exists"
         /\ UNCHANGED hres
    ELSE /\ hloc' = [hloc EXCEPT !.files_deleted = n]
         /\ Respond(Cleaned(n))

\* files_deleted = 0; for file_id, file_info in list(temp_files.items()):
cleanup_all_files ==
    /\ hpc = "idle"
    /\ hreq' = [op |-> "cleanup"]
    /\ hloc' = [items |-> Items, idx |-> 1, files_deleted |-> 0]
    /\ IF Items = <<>>
       THEN Respond(Cleaned(0))
       ELSE /\ hpc' = "cl_exists"
            /\ UNCHANGED hres
    /\ UNCHANGED issued
    /\ UNCHANGED storeVars
    /\ UNCHANGED sweepVars

\* file_path = file_info['path']; if os.path.exists(file_path):
cleanup_all_exists_CountsEntriesMutant ==
    /\ hpc = "cl_exists"
    /\ IF Exists(hloc.items[hloc.idx].file_info.path)
       THEN hpc' = "cl_remove" /\ hloc' = hloc
       ELSE hpc' = "cl_del" /\ hloc' = [hloc EXCEPT !.files_deleted = @ + 1]
    /\ UNCHANGED <<hreq, hres, issued>>
    /\ UNCHANGED storeVars
    /\ UNCHANGED sweepVars
cleanup_all_exists ==
    /\ hpc = "cl_exists"
    /\ hpc' = IF Exists(hloc.items[hloc.idx].file_info.path) THEN "cl_remove" ELSE "cl_del"
    /\ UNCHANGED <<hreq, hloc, hres, issued>>
    /\ UNCHANGED storeVars
    /\ UNCHANGED sweepVars

\* os.remove(file_path); files_deleted += 1
\* An error of os.remove leaves the loop for the handler's except clause.
cleanup_all_remove_ClearsDirectoryMutant ==
    /\ hpc = "cl_remove"
    /\ disk' = {}
    /\ hloc' = [hloc EXCEPT !.files_deleted = @ + 1]
    /\ hpc' = "cl_del"
    /\ UNCHANGED <<hreq, hres, issued>>
    /\ UNCHANGED <<temp_files, json_files, now, nextId>>
    /\ UNCHANGED sweepVars
cleanup_all_remove ==
    /\ hpc = "cl_remove"
    /\ LET p == hloc.items[hloc.idx].file_info.path
       IN  \/ /\ Exists(p)
              /\ disk' = RemoveFile(p)
              /\ hloc' = [hloc EXCEPT !.files_deleted = @ + 1]
              /\ hpc' = "cl_del"
              /\ UNCHANGED hres
           \/ /\ disk' = disk
              /\ Respond(CleanFailed(IF Exists(p) THEN "PermissionError"
                                                 ELSE "FileNotFoundError"))
              /\ UNCHANGED hloc
    /\ UNCHANGED <<hreq, issued>>
    /\ UNCHANGED <<temp_files, json_files, now, nextId>>
    /\ UNCHANGED sweepVars

\* del temp_files[file_id]
cleanup_all_del ==
    /\ hpc = "cl_del"
    /\ LET i == hloc.items[hloc.idx].file_id
       IN  IF i \in DOMAIN temp_files
           THEN /\ temp_files' = DictDel(i)
                /\ CleanAdvance(hloc.files_deleted)
           ELSE /\ Respond(CleanFailed("KeyError"))
                /\ UNCHANGED <<temp_files, hloc>>
    /\ UNCHANGED <<hreq, issued>>
    /\ UNCHANGED <<disk, json_files, now, nextId>>
    /\ UNCHANGED sweepVars

\* ---- direct_json_to_excel
\* Texts (keys, sheet names, column names, cell values) are sequences of
\* characters, so that str(key)[:31] is computed and not assumed.
Rep(c, n) == [i \in 1..n |-> c]

\* str(key)[:31]: Excel's limit on the length of a sheet name
SheetNameLimit == 31
Truncate(key) == SubSeq(key, 1, IF Len(key) < SheetNameLimit THEN Len(key) ELSE SheetNameLimit)

\* sheet_name='Data', sheet_name='Summary', the column 'value'
DataName == <<"D", "a", "t", "a">>
SummaryName == <<"S", "u", "m", "m", "a", "r", "y">>
ValueColumn == <<"v", "a", "l", "u", "e">>

\* JSON values, as json.loads returns them: a scalar, a list of flat
\* objects, or an object (dict: its items in insertion order, keys distinct).
JScalar(v) == [type |-> "scalar", val |-> v, rows |-> <<>>, items |-> <<>>]
JList(rows) == [type |-> "list", val |-> <<>>, rows |-> rows, items |-> <<>>]
JDict(items) == [type |-> "dict", val |-> <<>>, rows |-> <<>>, items |-> items]

\* The cell pandas writes for a missing value (NaN): empty.
Missing == <<>>

\* A DataFrame: its column names and its rows of values.
DataFrame(columns, rows) == [columns |-> columns, rows |-> rows]

\* The keys of a flat object, as columns not yet among cols.
RECURSIVE AddColumns(_, _)
AddColumns(cols, row) ==
    IF row = <<>> THEN cols
    ELSE LET c == Head(row).col
         IN  AddColumns(IF \E k \in 1..Len(cols) : cols[k] = c THEN cols
                        ELSE Append(cols, c), Tail(row))

\* The columns of pd.json_normalize(rows): the keys of the rows in the
\* order of their first appearance.
RECURSIVE Columns(_)
Columns(rows) ==
    IF rows = <<>> THEN <<>>
    ELSE AddColumns(Columns(SubSeq(rows, 1, Len(rows) - 1)), rows[Len(rows)])

\* row[c], NaN when the row has no key c
Lookup(row, c) ==
    IF \E k \in 1..Len(row) : row[k].col = c
    THEN row[CHOOSE k \in 1..Len(row) : row[k].col = c].val
    ELSE Missing

\* pd.json_normalize(rows) for a list of flat objects
json_normalize(rows) ==
    LET cols == Columns(rows)
    IN  DataFrame(cols, [r \in 1..Len(rows) |->
                            [c \in 1..Len(cols) |-> Lookup(rows[r], cols[c])]])

\* A flat object as the one row of pd.json_normalize([value]).
RowOf(value) == [k \in 1..Len(value.items) |->
                    [col |-> value.items[k].key, val |-> value.items[k].value.val]]

\* The cells df.to_excel(..., index=False) writes, from the sheet's first
\* row and column: the header row, then one row per row of df.
DfCells(df) ==
    [rc \in (0..Len(df.rows)) \X (1..Len(df.columns)) |->
        IF rc[1] = 0 THEN df.columns[rc[2]] ELSE df.rows[rc[1]][rc[2]]]

\* Writing cells over the cells a sheet holds.
Overlay(old, new) ==
    [rc \in (DOMAIN old) \cup (DOMAIN new) |->
        IF rc \in DOMAIN new THEN new[rc] ELSE old[rc]]

\* df.to_excel(writer, sheet_name=..., index=False) on a writer opened in
\* mode 'w': a sheet of that name the writer already holds is written
\* into again, otherwise a new sheet is appended to the workbook.
to_excel(book, df, sheet_name) ==
    IF \E k \in 1..Len(book) : book[k].name = sheet_name
    THEN LET k == CHOOSE j \in 1..Len(book) : book[j].name = sheet_name
         IN  [book EXCEPT ![k].cells = Overlay(@, DfCells(df))]
    ELSE Append(book, [name |-> sheet_name, cells |-> DfCells(df)])

\* The body of "for key, value in data.items()" for one item.
WriteItem(book, item) ==
    IF item.value.type = "list"
    THEN to_excel(book, json_normalize(item.value.rows), Truncate(item.key))
    ELSE IF item.value.type = "dict"
    THEN to_excel(book, json_normalize(<<RowOf(item.value)>>), Truncate(item.key))
    ELSE to_excel(book, DataFrame(<<item.key>>, <<<<item.value.val>>>>), SummaryName)

\* The loop over data.items().
RECURSIVE WriteItems(_, _)
WriteItems(book, items) ==
    IF items = <<>> THEN book
    ELSE WriteItems(WriteItem(book, Head(items)), Tail(items))

\* The workbook the writer holds when its "with" block ends.
Workbook(data) ==
    IF data.type = "list" THEN to_excel(<<>>, json_normalize(data.rows), DataName)
    ELSE IF data.type = "dict" THEN WriteItems(<<>>, data.items)
    ELSE to_excel(<<>>, DataFrame(<<ValueColumn>>, <<<<data.val>>>>), DataName)

\* direct_json_to_excel(json_data, file_name): the workbook it saves, or
\* the exception it raises.  Saving a workbook without a sheet raises
\* (openpyxl: "At least one sheet must be visible"), and the function
\* raises "Direct conversion failed" for it.
direct_json_to_excel(data) ==
    LET book == Workbook(data)
    IN  IF book = <<>>
        THEN [ok |-> FALSE, error |-> "Direct conversion failed", book |-> <<>>]
        ELSE [ok |-> TRUE, error |-> "none", book |-> book]

\* ---- the file name of the direct workbook
\* The characters of the base names: a letter, a digit, the three other
\* characters the code keeps, and two it removes.
FileChars == {"a", "1", " ", "-", "_", "!", "."}

\* c.isalnum()
IsAlnum(c) == c \in {"a", "1"}

\* "".join(c for c in file_name if c.isalnum() or c in (' ', '-', '_'))
RECURSIVE KeepChars(_)
KeepChars(name) ==
    IF name = <<>> THEN <<>>
    ELSE IF IsAlnum(Head(name)) \/ Head(name) \in {" ", "-", "_"}
    THEN <<Head(name)>> \o KeepChars(Tail(name))
    ELSE KeepChars(Tail(name))

\* str.strip(): the whitespace at both ends is removed
RECURSIVE Strip(_)
Strip(s) ==
    IF s = <<>> THEN <<>>
    ELSE IF Head(s) = " " THEN Strip(Tail(s))
    ELSE IF s[Len(s)] = " " THEN Strip(SubSeq(s, 1, Len(s) - 1))
    ELSE s

\* safe_filename = "".join(...).strip()
safe_filename(file_name) == Strip(KeepChars(file_name))

\* "_processed.xlsx"
ProcessedSuffix ==
    <<"_", "p", "r", "o", "c", "e", "s", "s", "e", "d", ".", "x", "l", "s", "x">>

\* xlsx_filename = f"{safe_filename}_processed.xlsx"
xlsx_filename(file_name) == safe_filename(file_name) \o ProcessedSuffix

\* file_name: Optional[str] = "data"
DefaultFileName == <<"d", "a", "t", "a">>

\* The longest base name of the calls.
MaxNameLen == 2

\* The base names direct_json_to_excel is called with.
FileNames == UNION {[1..n -> FileChars] : n \in 0..MaxNameLen}

\* ---- the JSON values the requests and calls are drawn from
\* Keys: two that agree in their first 31 characters, "Summary", and two
\* short ones.
LongKeyX == Rep("a", SheetNameLimit) \o <<"x">>
LongKeyY == Rep("a", SheetNameLimit) \o <<"y">>
Keys == {LongKeyX, LongKeyY, SummaryName, <<"k">>, <<"n">>}

\* Lists of flat objects: [], [{"c": "1"}], [{"c": "1"}, {"c": "2", "d": "3"}]
Row1 == <<[col |-> <<"c">>, val |-> <<"1">>]>>
Row2 == <<[col |-> <<"c">>, val |-> <<"2">>], [col |-> <<"d">>, val |-> <<"3">>]>>
Tables == {<<>>, <<Row1>>, <<Row1, Row2>>}

\* A flat object: {"c": "1"}
FlatObject == JDict(<<[key |-> <<"c">>, value |-> JScalar(<<"1">>)]>>)

\* The values of the keys of a top-level object.
DictValues == {JScalar(<<"1">>), JScalar(<<"2">>), JList(<<>>), JList(<<Row1>>), FlatObject}

\* The most keys a top-level object has.
MaxKeys == 3

\* The items of the objects of n keys: the keys are pairwise distinct.
ItemSeqs(n) ==
    {s \in [1..n -> [key : Keys, value : DictValues]] :
        \A j, k \in 1..n : j # k => s[j].key # s[k].key}

\* The JSON values direct_json_to_excel is called with.
Docs ==
    {JScalar(<<"1">>), JScalar(<<"2">>)}
        \cup {JList(t) : t \in Tables}
        \cup {JDict(s) : s \in UNION {ItemSeqs(n) : n \in 0..MaxKeys}}

\* The calls of direct_json_to_excel: (data, file_name).
DirectCalls ==
    {<<data, DefaultFileName>> : data \in Docs}
        \cup {<<JList(<<Row1>>), name>> : name \in FileNames}

\* The payload of the /process requests of SpecStore, and those of SpecSelect.
StoreData == JList(<<Row1>>)
SelectData == {JList(<<Row1>>),
               JDict(<<[key |-> <<"k">>, value |-> JScalar(<<"1">>)],
                       [key |-> <<"n">>, value |-> JList(<<Row1>>)]>>)}

\* ---- POST /process
\* The selection convert_json_with_agno makes from len(json_data).
StrategyInclusiveMutant(len) ==
    IF len >= LargeJsonLimit THEN "DIRECT"
    ELSE IF len >= MediumJsonLimit THEN "DELEGATED_BY_REFERENCE"
    ELSE "DELEGATED_INLINE"
StrategyHigherLimitMutant(len) ==
    IF len > LargeJsonLimit + MediumJsonLimit THEN "DIRECT"
    ELSE IF len > MediumJsonLimit THEN "DELEGATED_BY_REFERENCE"
    ELSE "DELEGATED_INLINE"
Strategy(len) ==
    IF len > LargeJsonLimit THEN "DIRECT"
    ELSE IF len > MediumJsonLimit THEN "DELEGATED_BY_REFERENCE"
    ELSE "DELEGATED_INLINE"

\* str(uuid.uuid4())
Uuid4StuckMutant == IF nextId > 1 THEN nextId - 1 ELSE nextId
Uuid4 == nextId

\* request.json_data[:500] + "..." if len(request.json_data) > 500 else
\* request.json_data, as the length of the preview
Preview(len) == IF len > PreviewLen THEN PreviewLen + 3 ELSE len

\* The value stored in temp_files[file_id].
Info(p, fname, len) ==
    [path |-> p, filename |-> fname, created_at |-> now, original_json |-> Preview(len)]

\* glob.glob(os.path.join(TEMP_DIR, "*.xlsx"))
GlobXlsx == {Path(f.id, f.name) : f \in disk}

\* ProcessResponse(success=True, ...)
Success(i, fname, note) ==
    [status |-> "200", success |-> TRUE, file_id |-> i, file_name |-> fname,
     download_url |-> <<"/download/", i>>, ai_analysis |-> note]
\* ProcessResponse(success=False, error=f"Processing failed: {str(e)}")
Failure(e) == [status |-> "200", success |-> FALSE, error |-> e]

\* Validate JSON; files_before = set(glob.glob(...)).  A request is its
\* payload's length, whether the payload parses, and the value it parses to.
process_json_data_NoSnapshotMutant(len, valid, data) ==
    /\ hpc = "idle"
    /\ nextId <= MaxIds
    /\ Strategy(len) = "DELEGATED_BY_REFERENCE" => json_files < MaxJson
    /\ hreq' = [op |-> "process", len |-> len, valid |-> valid, data |-> data]
    /\ IF valid
       THEN /\ hloc' = [files_before |-> {}, strategy |-> "none",
                        agent_runs |-> 0, producer |-> "none", produced |-> {},
                        direct_calls |-> 0, direct_failures |-> 0]
            /\ hpc' = "pr_convert"
            /\ UNCHANGED hres
       ELSE /\ Respond([status |-> "400", detail |-> "Invalid JSON"])
            /\ UNCHANGED hloc
    /\ UNCHANGED issued
    /\ UNCHANGED storeVars
    /\ UNCHANGED sweepVars
process_json_data_SkipsValidationMutant(len, valid, data) ==
    /\ hpc = "idle"
    /\ nextId <= MaxIds
    /\ Strategy(len) = "DELEGATED_BY_REFERENCE" => json_files < MaxJson
    /\ hreq' = [op |-> "process", len |-> len, valid |-> valid, data |-> data]
    /\ hloc' = [files_before |-> GlobXlsx, strategy |-> "none",
                agent_runs |-> 0, producer |-> "none", produced |-> {},
                direct_calls |-> 0, direct_failures |-> 0]
    /\ hpc' = "pr_convert"
    /\ UNCHANGED <<hres, issued>>
    /\ UNCHANGED storeVars
    /\ UNCHANGED sweepVars
process_json_data(len, valid, data) ==
    /\ hpc = "idle"
    /\ nextId <= MaxIds
    /\ Strategy(len) = "DELEGATED_BY_REFERENCE" => json_files < MaxJson
    /\ hreq' = [op |-> "process", len |-> len, valid |-> valid, data |-> data]
    /\ IF valid
       THEN /\ hloc' = [files_before |-> GlobXlsx, strategy |-> "none",
                        agent_runs |-> 0, producer |-> "none", produced |-> {},
                        direct_calls |-> 0, direct_failures |-> 0]
            /\ hpc' = "pr_convert"
            /\ UNCHANGED hres
       ELSE /\ Respond([status |-> "400", detail |-> "Invalid JSON"])
            /\ UNCHANGED hloc
    /\ UNCHANGED issued
    /\ UNCHANGED storeVars
    /\ UNCHANGED sweepVars

\* convert_json_with_agno: if json_size > 100000: return None
process_convert_large ==
    /\ hpc = "pr_convert"
    /\ Strategy(hreq.len) = "DIRECT"
    /\ hloc' = [hloc EXCEPT !.strategy = "DIRECT"]
    /\ hpc' = "pr_direct"
    /\ UNCHANGED <<hreq, hres, issued>>
    /\ UNCHANGED storeVars
    /\ UNCHANGED sweepVars

\* convert_json_with_agno: create_agno_agent, and for json_size > 50000 the
\* scratch file of the payload; an error of either is raised again as
\* "Agno AI processing failed" and reaches the fallback of the handler.
process_convert_agent ==
    /\ hpc = "pr_convert"
    /\ Strategy(hreq.len) # "DIRECT"
    /\ \/ /\ json_files' = IF Strategy(hreq.len) = "DELEGATED_BY_REFERENCE"
                           THEN json_files + 1 ELSE json_files
          /\ hloc' = [hloc EXCEPT !.strategy = Strategy(hreq.len)]
          /\ hpc' = "pr_agent"
       \/ /\ json_files' = json_files
          /\ hloc' = [hloc EXCEPT !.strategy = Strategy(hreq.len),
                                  !.producer = "Exception"]
          /\ hpc' = "pr_fallback"
    /\ UNCHANGED <<hreq, hres, issued>>
    /\ UNCHANGED <<temp_files, disk, now, nextId>>
    /\ UNCHANGED sweepVars

\* What the producer writes into TEMP_DIR: for each name, the modification
\* time of the workbook it writes under that name, 0 for none.
ProducerWrites == [CandNames -> MTimes \cup {0}]

\* The workbook the producer writes: its sheets are the producer's choice.
ProducerBook == <<[name |-> <<"a", "i">>, cells |-> <<>>]>>

\* TEMP_DIR after the producer wrote w (a workbook of the same name is
\* overwritten).
AfterWrites(w) ==
    {f \in disk : ~(f.id = 0 /\ w[f.name] # 0)}
        \cup {[id |-> 0, name |-> n, mtime |-> w[n], book |-> ProducerBook] :
                    n \in {m \in CandNames : w[m] # 0}}

\* response = agent.run(prompt): the producer runs, writes what it writes,
\* and returns content, returns no content, or raises.
process_agent_run ==
    /\ hpc = "pr_agent"
    /\ \E w \in ProducerWrites, out \in {"content", "None", "RecursionError", "Exception"},
          cleaned \in BOOLEAN :
          /\ disk' = AfterWrites(w)
          /\ json_files' = IF cleaned /\ hloc.strategy = "DELEGATED_BY_REFERENCE"
                           THEN json_files - 1 ELSE json_files
          /\ hloc' = [hloc EXCEPT !.agent_runs = @ + 1, !.producer = out,
                                  !.produced = {Path(f.id, f.name) : f \in AfterWrites(w)}
                                                  \ hloc.files_before]
          /\ hpc' = CASE out = "content" -> "pr_after"
                      [] out \in {"None", "RecursionError"} -> "pr_direct"
                      [] OTHER -> "pr_fallback"
    /\ UNCHANGED <<hreq, hres, issued>>
    /\ UNCHANGED <<temp_files, now, nextId>>
    /\ UNCHANGED sweepVars

\* direct_json_to_excel writes its workbook, and the handler registers it
\* and returns the success response.
DirectSucceeds(note) ==
    LET file_id == Uuid4
        file_path_ == Path(file_id, DirectName)
        written == direct_json_to_excel(hreq.data)
    IN  /\ written.ok
        /\ disk' = disk \cup {[id |-> file_id, name |-> DirectName, mtime |-> 0,
                                book |-> written.book]}
        /\ temp_files' = DictSet(file_id, Info(file_path_, DirectName, hreq.len))
        /\ nextId' = nextId + 1
        /\ issued' = Append(issued, file_id)
        /\ Respond(Success(file_id, DirectName, note))

\* if ai_response is None: direct_json_to_excel(...); an exception of it is
\* caught by "except Exception as agno_error" of the same try.
process_direct ==
    /\ hpc = "pr_direct"
    /\ \/ /\ hloc' = [hloc EXCEPT !.direct_calls = @ + 1]
          /\ DirectSucceeds("Direct conversion used for large JSON data")
       \/ /\ hloc' = [hloc EXCEPT !.direct_calls = @ + 1, !.direct_failures = @ + 1]
          /\ hpc' = "pr_fallback"
          /\ UNCHANGED <<temp_files, disk, nextId, issued, hres>>
    /\ UNCHANGED <<hreq, json_files, now>>
    /\ UNCHANGED sweepVars

\* except Exception as agno_error: direct_json_to_excel(...); an exception
\* of it reaches the outer "except Exception".
process_fallback_RegistersFirstMutant ==
    /\ hpc = "pr_fallback"
    /\ hloc' = [hloc EXCEPT !.direct_calls = @ + 1, !.direct_failures = @ + 1]
    /\ temp_files' = DictSet(Uuid4, Info(Path(Uuid4, DirectName), DirectName, hreq.len))
    /\ nextId' = nextId + 1
    /\ Respond(Failure("Processing failed: Direct conversion failed"))
    /\ UNCHANGED <<disk, issued>>
    /\ UNCHANGED <<hreq, json_files, now>>
    /\ UNCHANGED sweepVars
FallbackFailsMutant ==
    /\ hpc = "pr_fallback"
    /\ hloc' = hloc
    /\ Respond(Failure("Processing failed: Agno AI processing failed"))
    /\ UNCHANGED <<temp_files, disk, nextId, issued>>
    /\ UNCHANGED <<hreq, json_files, now>>
    /\ UNCHANGED sweepVars
process_fallback ==
    /\ hpc = "pr_fallback"
    /\ \/ /\ hloc' = [hloc EXCEPT !.direct_calls = @ + 1]
          /\ DirectSucceeds("Fallback conversion used due to: error")
       \/ /\ hloc' = [hloc EXCEPT !.direct_calls = @ + 1, !.direct_failures = @ + 1]
          /\ Respond(Failure("Processing failed: Direct conversion failed"))
          /\ UNCHANGED <<temp_files, disk, nextId, issued>>
    /\ UNCHANGED <<hreq, json_files, now>>
    /\ UNCHANGED sweepVars

\* files_after - files_before
NewFilesIgnoresSnapshotMutant == GlobXlsx
NewFiles == GlobXlsx \ hloc.files_before

\* max(new_files, key=os.path.getmtime): a new file no other is newer than
Newest(p) ==
    /\ p \in NewFiles
    /\ \A q \in NewFiles : FileAt(q).mtime <= FileAt(p).mtime

\* if new_files: the newest is renamed to its managed path and registered;
\* else: the handler goes on to direct conversion.
process_after ==
    /\ hpc = "pr_after"
    /\ IF NewFiles = {}
       THEN /\ hpc' = "pr_nofile"
            /\ UNCHANGED <<temp_files, disk, nextId, issued, hres>>
       ELSE \E newest_file \in NewFiles :
              /\ Newest(newest_file)
              /\ LET file_id == Uuid4
                     original_filename == newest_file.name
                     managed_path == Path(file_id, original_filename)
                 IN  /\ disk' = RemoveFile(newest_file) \cup
                                  {[id |-> file_id, name |-> original_filename,
                                    mtime |-> FileAt(newest_file).mtime,
                                    book |-> FileAt(newest_file).book]}
                     /\ temp_files' = DictSet(file_id,
                                          Info(managed_path, original_filename, hreq.len))
                     /\ nextId' = nextId + 1
                     /\ issued' = Append(issued, file_id)
                     /\ Respond(Success(file_id, original_filename, "ai_response"))
    /\ UNCHANGED <<hreq, hloc, json_files, now>>
    /\ UNCHANGED sweepVars

\* else: No file created by AI, use direct conversion
process_nofile_OtherNameMutant ==
    /\ hpc = "pr_nofile"
    /\ hloc' = [hloc EXCEPT !.direct_calls = @ + 1]
    /\ direct_json_to_excel(hreq.data).ok
    /\ disk' = disk \cup {[id |-> Uuid4, name |-> "a.xlsx", mtime |-> 0,
                            book |-> direct_json_to_excel(hreq.data).book]}
    /\ temp_files' = DictSet(Uuid4, Info(Path(Uuid4, "a.xlsx"), "a.xlsx", hreq.len))
    /\ nextId' = nextId + 1
    /\ issued' = Append(issued, Uuid4)
    /\ Respond(Success(Uuid4, "a.xlsx",
                       "Direct conversion used - AI did not create output file"))
    /\ UNCHANGED <<hreq, json_files, now>>
    /\ UNCHANGED sweepVars
process_nofile ==
    /\ hpc = "pr_nofile"
    /\ \/ /\ hloc' = [hloc EXCEPT !.direct_calls = @ + 1]
          /\ DirectSucceeds("Direct conversion used - AI did not create output file")
       \/ /\ hloc' = [hloc EXCEPT !.direct_calls = @ + 1, !.direct_failures = @ + 1]
          /\ Respond(Failure("Processing failed: Direct conversion failed"))
          /\ UNCHANGED <<temp_files, disk, nextId, issued>>
    /\ UNCHANGED <<hreq, json_files, now>>
    /\ UNCHANGED sweepVars

\* ---- POST /batch-process (main_backup.py)
\* The longest batch, and the number of ids one behaviour's batches use.
MaxBatch == 3

\* len(json_data) of the batch items: below every limit.
BatchLen == 2

\* The items of a batch: json_data that does not parse, json_data that
\* parses to a list of one flat object, and an item without json_data,
\* for which file_data.get('json_data', '{}') gives the empty object.
BatchItems == {[valid |-> FALSE, data |-> JList(<<Row1>>)],
               [valid |-> TRUE, data |-> JList(<<Row1>>)],
               [valid |-> TRUE, data |-> JDict(<<>>)]}

\* request.json_files
Batches == UNION {[1..n -> BatchItems] : n \in 0..MaxBatch}

\* What the producer writes in one run of a batch: any of the candidate
\* names, all in the same second.
BatchWrites == {w \in ProducerWrites : \A n \in CandNames : w[n] \in {0, 1}}

\* f"File {i+1}: {...}"
FileMessage(i, text) == [file |-> i + 1, text |-> text]

\* "; " between two messages
Separator == [file |-> 0, text |-> "; "]

\* "; ".join(errors)
RECURSIVE Join(_)
Join(errors) ==
    IF errors = <<>> THEN <<>>
    ELSE IF Len(errors) = 1 THEN errors
    ELSE <<Head(errors), Separator>> \o Join(Tail(errors))

\* error_msg = "; ".join(errors) if errors else None
ErrorMsg(errors) ==
    IF errors # <<>> THEN [none |-> FALSE, text |-> Join(errors)]
    ELSE [none |-> TRUE, text |-> <<>>]

\* BatchProcessResponse(success=..., processed_files=..., processed_count=..., error=...)
BatchProcessResponse(processed_files, errors) ==
    [status |-> "200", success |-> Len(processed_files) > 0,
     processed_files |-> processed_files,
     processed_count |-> Len(processed_files),
     error |-> ErrorMsg(errors)]

\* processed_files = []; errors = []; the for loop is entered.  first_id
\* and log are history: the id the next registration gets, and how each
\* item's process_json_data call ended.
batch_process_json(files) ==
    /\ hpc = "idle"
    /\ nextId + Len(files) <= MaxBatch + 1
    /\ hreq' = [op |-> "batch", json_files |-> files, len |-> BatchLen]
    /\ hloc' = [i |-> 0, processed_files |-> <<>>, errors |-> <<>>,
                files_before |-> {}, first_id |-> nextId, log |-> <<>>]
    /\ hpc' = "bp_for"
    /\ UNCHANGED <<hres, issued>>
    /\ UNCHANGED storeVars
    /\ UNCHANGED sweepVars

\* The item's call ended without success: result.success is False, or the
\* call raised and "except Exception as e" of the loop body caught it;
\* errors.append(f"File {i+1}: ..."), and the loop goes on.
ItemFails(text) ==
    /\ hloc' = [hloc EXCEPT !.errors = Append(@, FileMessage(hloc.i, text)),
                            !.log = Append(@, [item |-> hloc.i + 1, success |-> FALSE,
                                               file_id |-> 0]),
                            !.i = @ + 1]
    /\ hpc' = "bp_for"

\* The item's call returned ProcessResponse(success=True, ...);
\* processed_files.append({...}), and the loop goes on.
ItemSucceeds(file_id, fname) ==
    /\ hloc' = [hloc EXCEPT !.processed_files =
                                Append(@, [file_id |-> file_id, file_name |-> fname,
                                           download_url |-> <<"/download/", file_id>>]),
                            !.log = Append(@, [item |-> hloc.i + 1, success |-> TRUE,
                                               file_id |-> file_id]),
                            !.i = @ + 1]
    /\ hpc' = "bp_for"

\* for i, file_data in enumerate(request.json_files): the next item's
\* ProcessRequest is built and process_json_data validates its JSON (an
\* HTTPException 400 for a payload that does not parse) and takes
\* files_before.
batch_for ==
    /\ hpc = "bp_for"
    /\ hloc.i < Len(hreq.json_files)
    /\ IF hreq.json_files[hloc.i + 1].valid
       THEN /\ hloc' = [hloc EXCEPT !.files_before = GlobXlsx]
            /\ hpc' = "bp_agent"
       ELSE ItemFails("Invalid JSON")
    /\ UNCHANGED <<hreq, hres, issued>>
    /\ UNCHANGED storeVars
    /\ UNCHANGED sweepVars

\* ai_response = convert_json_with_agno(...), then ai_response[:200]: the
\* producer writes what it writes and returns text, returns no content
\* (the slice raises TypeError), or raises; the last two end the call in
\* ProcessResponse(success=False).
batch_agent_run_BreaksLoopMutant ==
    /\ hpc = "bp_agent"
    /\ \E w \in BatchWrites, out \in {"content", "None", "Exception"} :
          /\ disk' = AfterWrites(w)
          /\ CASE out = "content" -> hpc' = "bp_after" /\ hloc' = hloc
               [] OTHER ->
                    /\ hloc' = [hloc EXCEPT
                                  !.errors = Append(@, FileMessage(hloc.i, "Processing failed")),
                                  !.log = Append(@, [item |-> hloc.i + 1, success |-> FALSE,
                                                     file_id |-> 0]),
                                  !.i = Len(hreq.json_files)]
                    /\ hpc' = "bp_for"
    /\ UNCHANGED <<hreq, hres, issued>>
    /\ UNCHANGED <<temp_files, json_files, now, nextId>>
    /\ UNCHANGED sweepVars
batch_agent_run ==
    /\ hpc = "bp_agent"
    /\ \E w \in BatchWrites, out \in {"content", "None", "Exception"} :
          /\ disk' = AfterWrites(w)
          /\ CASE out = "content" -> hpc' = "bp_after" /\ hloc' = hloc
               [] out = "None" ->
                    ItemFails("Processing failed: 'NoneType' object is not subscriptable")
               [] OTHER -> ItemFails("Processing failed: Agno AI processing failed")
    /\ UNCHANGED <<hreq, hres, issued>>
    /\ UNCHANGED <<temp_files, json_files, now, nextId>>
    /\ UNCHANGED sweepVars

\* new_files = files_after - files_before; if new_files: the newest is
\* renamed to its managed path and registered, and the call returns
\* success; else the call goes on to its fallback.
batch_new_files ==
    /\ hpc = "bp_after"
    /\ IF NewFiles = {}
       THEN /\ hpc' = "bp_fallback"
            /\ UNCHANGED <<temp_files, disk, nextId, issued, hloc>>
       ELSE \E newest_file \in NewFiles :
              /\ Newest(newest_file)
              /\ LET file_id == Uuid4
                     original_filename == newest_file.name
                     managed_path == Path(file_id, original_filename)
                 IN  /\ disk' = RemoveFile(newest_file) \cup
                                  {[id |-> file_id, name |-> original_filename,
                                    mtime |-> FileAt(newest_file).mtime,
                                    book |-> FileAt(newest_file).book]}
                     /\ temp_files' = DictSet(file_id,
                                          Info(managed_path, original_filename, hreq.len))
                     /\ nextId' = nextId + 1
                     /\ issued' = Append(issued, file_id)
                     /\ ItemSucceeds(file_id, original_filename)
    /\ UNCHANGED <<hreq, hres, json_files, now>>
    /\ UNCHANGED sweepVars

\* xlsx_filename of the fallback for an item that names no file_name:
\* f'batch_file_{i+1}' followed by "_processed.xlsx".
BatchFileName(i) ==
    <<"batch_file_1_processed.xlsx", "batch_file_2_processed.xlsx",
      "batch_file_3_processed.xlsx", "batch_file_4_processed.xlsx",
      "batch_file_5_processed.xlsx">>[i + 1]

\* The DataFrame of the fallback: json_normalize(data) for a list,
\* json_normalize([data]) for an object, a 'value' column otherwise.
FallbackFrame(data) ==
    IF data.type = "list" THEN json_normalize(data.rows)
    ELSE IF data.type = "dict" THEN json_normalize(<<RowOf(data)>>)
    ELSE DataFrame(<<ValueColumn>>, <<<<data.val>>>>)

\* The fallback of the call: one sheet 'Data' is written under a fresh id
\* and registered, and the call returns success; or the writing raises and
\* the call raises HTTPException 500, which the loop body catches.
batch_fallback ==
    /\ hpc = "bp_fallback"
    /\ \/ LET file_id == Uuid4
              data == hreq.json_files[hloc.i + 1].data
              xlsx_name == BatchFileName(hloc.i)
          IN  /\ disk' = disk \cup
                           {[id |-> file_id, name |-> xlsx_name, mtime |-> 0,
                             book |-> to_excel(<<>>, FallbackFrame(data), DataName)]}
              /\ temp_files' = DictSet(file_id,
                                   Info(Path(file_id, xlsx_name), xlsx_name, hreq.len))
              /\ nextId' = nextId + 1
              /\ issued' = Append(issued, file_id)
              /\ ItemSucceeds(file_id, xlsx_name)
       \/ /\ ItemFails("Both AI and fallback processing failed")
          /\ UNCHANGED <<temp_files, disk, nextId, issued>>
    /\ UNCHANGED <<hreq, hres, json_files, now>>
    /\ UNCHANGED sweepVars

\* The loop is over: success = len(processed_files) > 0, and the
\* BatchProcessResponse is returned.
batch_return ==
    /\ hpc = "bp_for"
    /\ hloc.i = Len(hreq.json_files)
    /\ Respond(BatchProcessResponse(hloc.processed_files, hloc.errors))
    /\ UNCHANGED <<hreq, hloc, issued>>
    /\ UNCHANGED storeVars
    /\ UNCHANGED sweepVars

\* --------------------------------------------------------- specifications
\* The registry, the cleanup thread and the handlers of the store, with
\* /process requests whose payload is longer than 100000 characters (the
\* producer is not involved).
NextStore ==
    \/ Tick
    \/ external_delete
    \/ periodic_cleanup
    \/ cleanup_expired_files
    \/ \E i \in Ids : download_file(i)
    \/ download_read
    \/ download_exists
    \/ download_prune
    \/ download_del
    \/ list_files
    \/ list_next
    \/ cleanup_all_files
    \/ cleanup_all_exists
    \/ cleanup_all_remove
    \/ cleanup_all_del
    \/ \E valid \in BOOLEAN : process_json_data(LargeJsonLimit + 1, valid, StoreData)
    \/ process_convert_large
    \/ process_direct
    \/ process_fallback
    \/ handler_return

SpecStore == Init /\ [][NextStore]_vars

\* The /process handler over every payload length and every behaviour of
\* the producer.
NextSelect ==
    \/ \E len \in Lengths, valid \in BOOLEAN, data \in SelectData :
          process_json_data(len, valid, data)
    \/ process_convert_large
    \/ process_convert_agent
    \/ process_agent_run
    \/ process_direct
    \/ process_fallback
    \/ process_after
    \/ process_nofile
    \/ handler_return

SpecSelect == Init /\ [][NextSelect]_vars

\* direct_json_to_excel alone, called with every value of Docs under the
\* default base name, and with every base name of FileNames.
InitDirect ==
    /\ \E call \in DirectCalls :
          hreq = [op |-> "direct", data |-> call[1], file_name |-> call[2]]
    /\ hpc = "dj_call"
    /\ hloc = NoLoc
    /\ hres = NoRes
    /\ issued = <<>>
    /\ temp_files = <<>>
    /\ disk = {}
    /\ json_files = 0
    /\ now = 0
    /\ nextId = 1
    /\ spc = "sleep"
    /\ current_time = 0
    /\ expired_files = <<>>
    /\ sidx = 0
    /\ file_path = NoPath
    /\ ssize = 0
    /\ serr = "none"

\* The call returns its workbook or raises.
direct_call ==
    /\ hpc = "dj_call"
    /\ hloc' = [safe_filename |-> safe_filename(hreq.file_name),
                xlsx_filename |-> xlsx_filename(hreq.file_name)]
    /\ hres' = direct_json_to_excel(hreq.data)
    /\ hpc' = "done"
    /\ UNCHANGED <<hreq, issued>>
    /\ UNCHANGED storeVars
    /\ UNCHANGED sweepVars

NextDirect == direct_call

SpecDirect == InitDirect /\ [][NextDirect]_vars

\* The store under a producer: the cleanup thread, the clock, /cleanup, and
\* /process requests that go to the producer by reference, so that TEMP_DIR
\* holds scratch payload files and candidates next to the registered files.
ServiceLengths == {MediumJsonLimit + 1}

NextService ==
    \/ Tick
    \/ periodic_cleanup
    \/ cleanup_expired_files
    \/ cleanup_all_files
    \/ cleanup_all_exists
    \/ cleanup_all_remove
    \/ cleanup_all_del
    \/ \E len \in ServiceLengths, valid \in BOOLEAN : process_json_data(len, valid, StoreData)
    \/ process_convert_agent
    \/ process_agent_run
    \/ process_direct
    \/ process_fallback
    \/ process_after
    \/ process_nofile
    \/ handler_return

SpecService == Init /\ [][NextService]_vars

\* Requests during a producer call: the cleanup thread, the handlers of the
\* store and /process requests that go to the producer inline.  No time
\* passes, so a pass of the cleanup thread is its scan.
BlockingLengths == {MediumJsonLimit}

NextBlocking ==
    \/ periodic_cleanup
    \/ cleanup_scan
    \/ \E i \in Ids : download_file(i)
    \/ download_read
    \/ download_exists
    \/ list_files
    \/ list_next
    \/ cleanup_all_files
    \/ cleanup_all_exists
    \/ cleanup_all_remove
    \/ cleanup_all_del
    \/ \E len \in BlockingLengths, valid \in BOOLEAN : process_json_data(len, valid, StoreData)
    \/ process_convert_agent
    \/ process_agent_run
    \/ process_direct
    \/ process_fallback
    \/ process_after
    \/ process_nofile
    \/ handler_return

SpecBlocking == Init /\ [][NextBlocking]_vars

\* The batch operation of main_backup.py alone: batches of at most
\* MaxBatch items, one after another.
NextBatch ==
    \/ \E files \in Batches : batch_process_json(files)
    \/ batch_for
    \/ batch_agent_run
    \/ batch_new_files
    \/ batch_fallback
    \/ batch_return
    \/ handler_return

SpecBatch == Init /\ [][NextBatch]_vars

\* ------------------------------------------------------------- properties
\* A /process request with valid JSON has returned.
ProcessDone == hpc = "done" /\ hreq.op = "process" /\ hreq.valid

Delegated == {"DELEGATED_INLINE", "DELEGATED_BY_REFERENCE"}

\* The producer raised, overflowed, or returned leaving no new workbook.
DelegationFailed ==
    \/ hloc.producer \in {"Exception", "RecursionError"}
    \/ hloc.producer \in {"content", "None"} /\ hloc.produced = {}

\* The annotations that name direct structuring as the path used.
DirectNotes == {"Direct conversion used for large JSON data",
                "Fallback conversion used due to: error",
                "Direct conversion used - AI did not create output file"}

\* C1: a delegated request whose delegation failed (the producer raised,
\* overflowed or left no new workbook) and whose direct structuring did not
\* fail ends in a success response that carries a registered file id and an
\* annotation naming the direct path; a failure response is returned only
\* after a direct conversion failed, never for the failed delegation alone.
C1_FallbackIsTransparent ==
    (ProcessDone /\ hloc.strategy \in Delegated) =>
        /\ hres.status = "200"
        /\ ~hres.success => hloc.direct_failures > 0
        /\ (DelegationFailed /\ hloc.direct_failures = 0) =>
              /\ hres.success
              /\ hres.file_id \in DOMAIN temp_files
              /\ temp_files[hres.file_id].path \in GlobXlsx
              /\ hres.ai_analysis \in DirectNotes

C1_Witness ==
    /\ ProcessDone
    /\ hloc.strategy = "DELEGATED_BY_REFERENCE"
    /\ hloc.producer = "Exception"
    /\ hloc.agent_runs = 1
    /\ hloc.direct_failures = 0
    /\ hres.success
    /\ hres.ai_analysis = "Fallback conversion used due to: error"

\* C2: the strategy of a request is a function of the payload length
\* alone: above 100000 DIRECT, above 50000 and up to 100000
\* DELEGATED_BY_REFERENCE, up to 50000 DELEGATED_INLINE; it is selected
\* once and stays what it is until the request returns, the producer runs
\* for no DIRECT request, and the payload goes to a scratch file exactly
\* for DELEGATED_BY_REFERENCE.
C2_StrategyByLength ==
    (hreq.op = "process" /\ hreq.valid /\ hloc.strategy # "none") =>
        /\ hreq.len > 100000 => hloc.strategy = "DIRECT"
        /\ (hreq.len > 50000 /\ hreq.len <= 100000) =>
              hloc.strategy = "DELEGATED_BY_REFERENCE"
        /\ hreq.len <= 50000 => hloc.strategy = "DELEGATED_INLINE"
        /\ hreq.len = 100000 => hloc.strategy = "DELEGATED_BY_REFERENCE"
        /\ hreq.len = 100001 => hloc.strategy = "DIRECT"
        /\ hreq.len = 50000 => hloc.strategy = "DELEGATED_INLINE"
        /\ hreq.len = 50001 => hloc.strategy = "DELEGATED_BY_REFERENCE"
        /\ hloc.strategy = "DIRECT" => hloc.agent_runs = 0

C2_Witness ==
    /\ hpc = "pr_agent"
    /\ hreq.len = 100000
    /\ hloc.strategy = "DELEGATED_BY_REFERENCE"
    /\ json_files > 0

\* A handler takes its last step and leaves with its response.
Returns(op) == hpc # "done" /\ hpc' = "done" /\ hreq'.op = op

\* The step condition of C3.
C3_Step ==
    /\ Returns("download") =>
          LET i == hreq'.file_id
          IN  /\ hres'.status = "200" =>
                    /\ hres'.path \in {Path(f.id, f.name) : f \in disk'}
                    /\ i \in DOMAIN temp_files' =>
                          /\ hres'.path = temp_files'[i].path
                          /\ hres'.filename = temp_files'[i].filename
              /\ (i \in DOMAIN temp_files'
                    /\ temp_files'[i].path \in {Path(f.id, f.name) : f \in disk'})
                    => hres'.status = "200"
              /\ hres'.status = "404" => i \notin DOMAIN temp_files'
              /\ (hpc = "dl_exists" /\ ~Exists(hloc.file_info.path)) => hpc' = "dl_prune"
    /\ \A i \in Ids : (i < nextId /\ i \notin DOMAIN temp_files) => i \notin DOMAIN temp_files'
    /\ (Returns("list") /\ hres'.status = "200") =>
          /\ {hres'.files[k].file_id : k \in 1..Len(hres'.files)} = DOMAIN temp_files'
          /\ hres'.count = Cardinality(DOMAIN temp_files')

SweeperStep == sweepVars' # sweepVars

\* The ids of expired_files.
ExpiredIds == {expired_files[k] : k \in 1..Len(expired_files)}

\* The step condition of C4.
C4_Step ==
    /\ SweeperStep =>
          /\ DOMAIN temp_files' \subseteq DOMAIN temp_files
          /\ \A i \in DOMAIN temp_files :
                /\ i \notin DOMAIN temp_files' =>
                      /\ i \in ExpiredIds
                      /\ current_time - temp_files[i].created_at > 1
                /\ i \in DOMAIN temp_files' => temp_files'[i] = temp_files[i]
                /\ ~(current_time - temp_files[i].created_at > 1) =>
                      (temp_files[i].path \in {Path(f.id, f.name) : f \in disk'})
                          = Exists(temp_files[i].path)
          /\ \A f \in disk \ disk' :
                \E i \in DOMAIN temp_files :
                    /\ temp_files[i].path = Path(f.id, f.name)
                    /\ current_time - temp_files[i].created_at > 1
          /\ disk' \subseteq disk
    /\ (SweeperStep /\ spc \in {"scan", "check", "del"} /\ spc' = "sleep") =>
          \A i \in DOMAIN temp_files' :
              ~(current_time - temp_files'[i].created_at > 1)

C5_SweeperStaysAlive == spc # "dead" /\ serr = "none"

\* C6: when the cleanup thread evicts an entry that a request handler gets,
\* prunes or bulk-clears at the same time, neither side raises: the thread
\* does not end with a KeyError, /download does not answer 500, and
\* /cleanup does not end in its except clause for an id that the cleanup
\* thread removed first.  (Handlers do not interleave with each other, so
\* an id that disappears under a handler was removed by the cleanup
\* thread.)
C6_RacesAreBenign ==
    /\ serr # "KeyError"
    /\ (hpc = "done" /\ hreq.op = "download") => hres.status # "500"
    /\ (hpc = "done" /\ hreq.op = "cleanup") => (hres.success \/ hres.error # "KeyError")

\* C7: when os.remove fails for one artifact, cleanup_all_files skips it and
\* goes on: it returns success, the registry is empty and the count is the
\* number of files removed.
C7_ClearAllSkipsFailedDelete ==
    (hpc = "done" /\ hreq.op = "cleanup"
        /\ (hres.success \/ hres.error = "PermissionError")) =>
        /\ hres.success
        /\ temp_files = <<>>
        /\ hres.files_deleted = hloc.files_deleted

\* A step of the /cleanup handler.
CleanupStep == hreq'.op = "cleanup" /\ hpc # "done" /\ handlerVars' # handlerVars

\* The step condition of C8.
C8_Step ==
    /\ CleanupStep =>
          /\ disk' \subseteq disk
          /\ hloc'.files_deleted - (IF hpc = "idle" THEN 0 ELSE hloc.files_deleted)
                = Cardinality(disk \ disk')
    /\ (hpc = "idle" /\ hreq'.op = "cleanup" /\ temp_files = <<>>) =>
          /\ hpc' = "done"
          /\ hres' = Cleaned(0)
          /\ temp_files' = <<>>
    /\ (Returns("cleanup") /\ hres'.success) =>
          /\ temp_files' = <<>>
          /\ hres'.files_deleted = hloc'.files_deleted
          /\ hres'.files_deleted <= Len(hloc'.items)

C8_WitnessEmpty ==
    /\ hpc = "done"
    /\ hreq.op = "cleanup"
    /\ hloc.items = <<>>
    /\ hres = Cleaned(0)

\* The cleanup thread is scheduled fairly: a step it can take, it takes.
SpecStoreFair ==
    Init /\ [][NextStore]_vars /\ WF_vars(periodic_cleanup \/ cleanup_expired_files)

\* C9: under fair scheduling of the cleanup thread, every registered
\* artifact older than one hour is eventually out of the registry and off
\* the disk.
C9_ExpiredEventuallyGone ==
    \A i \in Ids :
        (i \in DOMAIN temp_files /\ now - temp_files[i].created_at > 1)
            ~> (i \notin DOMAIN temp_files /\ \A f \in disk : f.id # i)

\* The ids of a sequence are pairwise distinct.
Distinct(seq) == \A j, k \in 1..Len(seq) : j # k => seq[j] # seq[k]

\* The step condition of C10.
C10_Step ==
    /\ Distinct(issued')
    /\ issued' # issued =>
          LET i == issued'[Len(issued')]
          IN  /\ Len(issued') = Len(issued) + 1
              /\ i \notin DOMAIN temp_files
              /\ i \notin {issued[k] : k \in 1..Len(issued)}
              /\ DOMAIN temp_files' = DOMAIN temp_files \cup {i}
              /\ Cardinality(DOMAIN temp_files') = Cardinality(DOMAIN temp_files) + 1
              /\ \A k \in DOMAIN temp_files : temp_files'[k] = temp_files[k]
              /\ hres'.file_id = i

\* C10: the ids the registrations return are pairwise distinct, and every
\* registration, an eviction pass in progress or not, adds exactly one
\* entry under an id the registry did not hold and leaves every entry that
\* was there in place and unchanged.
C10_RegistrationsAreDistinct == [][C10_Step]_vars

\* Two registrations were made, the second while an eviction pass that
\* began before it was in progress; both entries are in the registry.
C10_Witness ==
    /\ Len(issued) = 2
    /\ issued[1] # issued[2]
    /\ DOMAIN temp_files = {issued[1], issued[2]}
    /\ spc = "scan"
    /\ ssize = 1

\* A step of the request handler in progress.
HandlerStep == handlerVars' # handlerVars

\* The step condition of C11.
C11_Step ==
    /\ (hpc = "idle" /\ hreq'.op = "process" /\ ~hreq'.valid) =>
          /\ hpc' = "done"
          /\ hres' = [status |-> "400", detail |-> "Invalid JSON"]
          /\ hloc' = NoLoc
          /\ temp_files' = temp_files
          /\ disk' = disk
          /\ json_files' = json_files
          /\ nextId' = nextId
          /\ issued' = issued
    /\ (hreq.op = "process" /\ ~hreq.valid /\ HandlerStep) =>
          /\ hpc = "done"
          /\ hpc' = "idle"
          /\ temp_files' = temp_files
          /\ disk' = disk
          /\ json_files' = json_files

\* C11: a /process request whose payload does not parse is answered 400
\* in its first step: no snapshot of the directory is taken, no strategy
\* is selected, the producer and direct_json_to_excel are not called, and
\* the registry, the files of TEMP_DIR, the scratch files and the ids
\* issued are what they were; the only step the handler takes after that
\* is its return.
C11_InvalidJsonRejectedFirst == [][C11_Step]_vars

\* A request with an unparseable payload was answered 400 while the
\* registry held an artifact, which is still there with its file.
C11_Witness ==
    /\ hpc = "done"
    /\ hreq.op = "process"
    /\ ~hreq.valid
    /\ hres.status = "400"
    /\ hloc = NoLoc
    /\ DOMAIN temp_files = {1}
    /\ Exists(temp_files[1].path)

\* C12: once direct_json_to_excel has failed in a request, it is not
\* called a second time, and the request returns a failure result: no
\* success response, no registry entry for it.
C12_DirectFailureIsTerminal ==
    (hreq.op = "process" /\ hreq.valid /\ hloc.direct_failures > 0) =>
        /\ hloc.direct_calls = 1
        /\ hpc = "done" => ~hres.success

\* The step condition of C13.
C13_Step ==
    (hreq'.op = "process" /\ hreq'.valid /\ hreq'.len > 100000) =>
        /\ hloc'.strategy \in {"none", "DIRECT"}
        /\ hloc'.agent_runs = 0
        /\ hloc'.producer = "none"
        /\ hloc'.produced = {}
        /\ hpc' \in {"pr_convert", "pr_direct", "pr_fallback", "done"}
        /\ json_files' = json_files
        /\ \A f \in disk' \ disk :
              /\ f.name = DirectName
              /\ f.book = direct_json_to_excel(hreq'.data).book
        /\ (hpc' = "done" /\ hres'.success) =>
              /\ hres'.ai_analysis \in DirectNotes
              /\ hres'.file_name = DirectName
              /\ hres'.file_id \in DOMAIN temp_files'
              /\ \E f \in disk' :
                    /\ Path(f.id, f.name) = temp_files'[hres'.file_id].path
                    /\ f.book = direct_json_to_excel(hreq'.data).book

\* C13: in every step of a request whose payload is longer than 100000
\* characters no producer is created or run, no scratch payload file is
\* written, the only file that appears in TEMP_DIR is the workbook of
\* direct_json_to_excel, and the artifact a success response names is that
\* workbook.
C13_LargeSkipsProducer == [][C13_Step]_vars

\* A request of 100001 characters returned its artifact by direct
\* conversion: the producer did not run, no scratch file exists.
C13_Witness ==
    /\ hpc = "done"
    /\ hreq.op = "process"
    /\ hreq.valid
    /\ hreq.len = 100001
    /\ hres.success
    /\ hres.ai_analysis = "Direct conversion used for large JSON data"
    /\ hloc.strategy = "DIRECT"
    /\ hloc.agent_runs = 0
    /\ json_files = 0

\* The producer returned from agent.run without raising.
ProducerReturned == hloc.producer \in {"content", "None"}

\* C14: when a request whose producer returned without raising has
\* returned: if the workbooks of TEMP_DIR after the call minus the snapshot
\* before it were none, direct_json_to_excel was called; if there were
\* some, the response is a success whose artifact is one of them, renamed
\* to its managed path, none of the others is newer than it, and each of
\* the others is still in TEMP_DIR under its own name, with no registry
\* entry pointing to it; direct_json_to_excel was not called.
C14_NewestCandidateRegistered ==
    (ProcessDone /\ ProducerReturned) =>
        IF hloc.produced = {}
        THEN hloc.direct_calls >= 1
        ELSE /\ hloc.direct_calls = 0
             /\ hres.success
             /\ hres.file_id \in DOMAIN temp_files
             /\ \E p \in hloc.produced :
                   /\ temp_files[hres.file_id].path = Path(hres.file_id, p.name)
                   /\ temp_files[hres.file_id].filename = p.name
                   /\ hres.file_name = p.name
                   /\ Exists(temp_files[hres.file_id].path)
                   /\ ~Exists(p)
                   /\ \A q \in hloc.produced \ {p} :
                         /\ Exists(q)
                         /\ FileAt(q).mtime <= FileAt(temp_files[hres.file_id].path).mtime
                         /\ \A i \in DOMAIN temp_files : temp_files[i].path # q

\* The paths the registry entries point to.
RegisteredPaths == {temp_files[i].path : i \in DOMAIN temp_files}

\* The step condition of C15.
C15_Step ==
    /\ (hreq'.op = "process" /\ HandlerStep) =>
          /\ \A i \in DOMAIN temp_files :
                /\ i \in DOMAIN temp_files'
                /\ temp_files'[i] = temp_files[i]
          /\ \A f \in disk : Path(f.id, f.name) \in RegisteredPaths => f \in disk'
          /\ \A i \in (DOMAIN temp_files') \ (DOMAIN temp_files) :
                temp_files'[i].path \notin RegisteredPaths
    /\ \A i, j \in DOMAIN temp_files' :
          i # j => temp_files'[i].path # temp_files'[j].path

\* C15: no step of a /process request, delegated or direct, removes or
\* rewrites a registry entry, or renames, moves, deletes or replaces a file
\* that a registry entry points to, or registers a path that an entry
\* already holds; and no two registry entries have the same path.
C15_RegisteredFileUntouched == [][C15_Step]_vars

\* A delegated request registered the candidate its producer wrote while
\* the registry held an earlier artifact: both entries and both files are
\* there.
C15_Witness ==
    /\ hpc = "done"
    /\ hreq.op = "process"
    /\ hres.status = "200"
    /\ hres.success
    /\ hres.ai_analysis = "ai_response"
    /\ hres.file_id = 2
    /\ DOMAIN temp_files = {1, 2}
    /\ Exists(temp_files[1].path)
    /\ Exists(temp_files[2].path)
    /\ temp_files[1].path # temp_files[2].path

\* C16: a list() that has returned did not fail and returned one entry
\* for each artifact the registry held when the enumeration began, none
\* of them twice, whatever the cleanup thread evicted in the meantime.
C16_ListIsConsistentSnapshot ==
    (hpc = "done" /\ hreq.op = "list") =>
        /\ hres.status = "200"
        /\ hres.success
        /\ hres.count = hloc.size
        /\ Len(hres.files) = hloc.size
        /\ \A j, k \in 1..Len(hres.files) :
              j # k => hres.files[j].file_id # hres.files[k].file_id

\* The workbook, display filename and registry entry of the artifact a
\* success response names are those of direct_json_to_excel for the
\* request's payload.
ArtifactIsDirect ==
    /\ hres.file_name = DirectName
    /\ hres.file_id \in DOMAIN temp_files
    /\ temp_files[hres.file_id].filename = DirectName
    /\ temp_files[hres.file_id].path = Path(hres.file_id, DirectName)
    /\ Exists(temp_files[hres.file_id].path)
    /\ FileAt(temp_files[hres.file_id].path).book = direct_json_to_excel(hreq.data).book

\* C17: a request whose producer returned and left no new workbook, and
\* that ended in success, has the artifact that direct_json_to_excel gives
\* for its payload: the same sheets in the same order with the same cells,
\* under the same display filename, as the artifact of a request of the
\* DIRECT strategy with that payload; the annotation names the direct path.
C17_NoFileEqualsDirect ==
    /\ (ProcessDone /\ hres.success /\ ProducerReturned /\ hloc.produced = {}) =>
          /\ ArtifactIsDirect
          /\ hres.ai_analysis \in DirectNotes
    /\ (ProcessDone /\ hres.success /\ hloc.strategy = "DIRECT") => ArtifactIsDirect

\* The producer returned content and no workbook; the request returned
\* the direct workbook of an object payload.
C17_Witness ==
    /\ ProcessDone
    /\ hres.success
    /\ hloc.producer = "content"
    /\ hloc.agent_runs = 1
    /\ hloc.produced = {}
    /\ hreq.data.type = "dict"
    /\ hres.ai_analysis = "Direct conversion used - AI did not create output file"
    /\ Len(FileAt(temp_files[hres.file_id].path).book) = 2

\* direct_json_to_excel has returned or raised.
DirectDone == hpc = "done" /\ hreq.op = "direct"

\* The sheet holds no row: no cell at all, or a header row only.
NoRows(sheet) == \A rc \in DOMAIN sheet.cells : rc[1] = 0

\* C18: direct_json_to_excel succeeds with a workbook of at least one
\* sheet for every value: for a scalar the workbook is the one sheet
\* "Data" with the header "value" and the scalar in the row below it; for
\* an empty list and for an empty object it is one sheet without rows.
C18_AtLeastOneSheet ==
    DirectDone =>
        /\ hres.ok
        /\ Len(hres.book) >= 1
        /\ hreq.data.type = "scalar" =>
              /\ Len(hres.book) = 1
              /\ hres.book[1].name = DataName
              /\ hres.book[1].cells = (<<0, 1>> :> ValueColumn) @@ (<<1, 1>> :> hreq.data.val)
        /\ (hreq.data.type = "list" /\ hreq.data.rows = <<>>) =>
              /\ Len(hres.book) = 1
              /\ NoRows(hres.book[1])
        /\ (hreq.data.type = "dict" /\ hreq.data.items = <<>>) =>
              /\ Len(hres.book) = 1
              /\ NoRows(hres.book[1])

\* The items of an object whose value is a scalar, and those whose value
\* is a list or an object, by their position.
ScalarItems(data) == {k \in 1..Len(data.items) : data.items[k].value.type = "scalar"}
TableItems(data) == {k \in 1..Len(data.items) : data.items[k].value.type # "scalar"}

\* The sheet holds the pair key/value: a column headed by the key with
\* the value below it.
HoldsPair(sheet, key, val) ==
    \E rc \in DOMAIN sheet.cells :
        /\ rc[1] = 0
        /\ sheet.cells[rc] = key
        /\ <<1, rc[2]>> \in DOMAIN sheet.cells
        /\ sheet.cells[<<1, rc[2]>>] = val

\* C19: for an object with at least one scalar-valued key the workbook
\* has exactly one sheet named "Summary", and that sheet holds the
\* key/value pair of every scalar-valued key.
C19_SummaryHoldsAllScalars ==
    (DirectDone /\ hreq.data.type = "dict" /\ ScalarItems(hreq.data) # {}) =>
        /\ hres.ok
        /\ Cardinality({s \in 1..Len(hres.book) : hres.book[s].name = SummaryName}) = 1
        /\ \A s \in 1..Len(hres.book) :
              hres.book[s].name = SummaryName =>
                  \A k \in ScalarItems(hreq.data) :
                      HoldsPair(hres.book[s], hreq.data.items[k].key,
                                hreq.data.items[k].value.val)

\* The cells of the sheet of a list-valued or object-valued item.
TableCells(item) ==
    DfCells(json_normalize(IF item.value.type = "list" THEN item.value.rows
                           ELSE <<RowOf(item.value)>>))

\* text begins with prefix
StartsWith(text, prefix) ==
    /\ Len(prefix) <= Len(text)
    /\ SubSeq(text, 1, Len(prefix)) = prefix

\* C20: for an object, the list-valued and object-valued keys have
\* pairwise distinct sheets: each has a sheet that holds exactly the cells
\* of its own value, whose name is at most 31 characters long and is the
\* truncated key, or the key shortened further and followed by a
\* disambiguating suffix; that sheet is not the "Summary" sheet of the
\* scalar keys; and the workbook has one sheet per such key, plus
\* "Summary" when there are scalar keys.
C20_TableKeysGetDistinctSheets ==
    (DirectDone /\ hreq.data.type = "dict" /\ TableItems(hreq.data) # {}) =>
        /\ hres.ok
        /\ Len(hres.book) = Cardinality(TableItems(hreq.data))
                              + (IF ScalarItems(hreq.data) # {} THEN 1 ELSE 0)
        /\ \E sheetOf \in [TableItems(hreq.data) -> 1..Len(hres.book)] :
              /\ \A j, k \in TableItems(hreq.data) : j # k => sheetOf[j] # sheetOf[k]
              /\ \A k \in TableItems(hreq.data) :
                    /\ hres.book[sheetOf[k]].cells = TableCells(hreq.data.items[k])
                    /\ Len(hres.book[sheetOf[k]].name) <= SheetNameLimit
                    /\ \/ hres.book[sheetOf[k]].name = Truncate(hreq.data.items[k].key)
                       \/ \E n \in 1..SheetNameLimit :
                             StartsWith(hres.book[sheetOf[k]].name,
                                        SubSeq(hreq.data.items[k].key, 1, n))
                    /\ ScalarItems(hreq.data) # {} =>
                          \E s \in 1..Len(hres.book) :
                              /\ s # sheetOf[k]
                              /\ hres.book[s].name = SummaryName

\* The list-valued and object-valued items of an object, by position, in
\* the order of the keys.
TableOrder(data) == OrderFrom(TableItems(data), 0)

\* C21: for an object with scalar-valued keys and list-valued or
\* object-valued keys, the last sheet of the workbook is "Summary", and
\* the sheets before it are those of the list-valued and object-valued
\* keys, in the order of the keys.
C21_SummaryIsLastSheet ==
    (DirectDone /\ hreq.data.type = "dict"
        /\ ScalarItems(hreq.data) # {} /\ TableItems(hreq.data) # {}) =>
        /\ hres.ok
        /\ hres.book[Len(hres.book)].name = SummaryName
        /\ Len(hres.book) = Len(TableOrder(hreq.data)) + 1
        /\ \A s \in 1..Len(TableOrder(hreq.data)) :
              hres.book[s].name = Truncate(hreq.data.items[TableOrder(hreq.data)[s]].key)

\* text ends with suffix
EndsWith(text, suffix) ==
    /\ Len(suffix) <= Len(text)
    /\ SubSeq(text, Len(text) - Len(suffix) + 1, Len(text)) = suffix

\* C24: the display filename of a direct workbook is the base name
\* without the characters that are neither alphanumeric nor a space, a
\* hyphen or an underscore, followed by "_processed.xlsx"; when nothing is
\* left of the base name a default base name stands in its place, so the
\* display filename is always longer than the suffix.
C24_FilenameSanitizedNonEmpty ==
    DirectDone =>
        /\ EndsWith(hloc.xlsx_filename, ProcessedSuffix)
        /\ Len(hloc.xlsx_filename) > Len(ProcessedSuffix)
        /\ KeepChars(hreq.file_name) # <<>> =>
              hloc.xlsx_filename = KeepChars(hreq.file_name) \o ProcessedSuffix

\* A request handler can begin in this state.
StoreAnswers ==
    /\ ENABLED list_files
    /\ ENABLED cleanup_all_files
    /\ ENABLED (\E i \in Ids : download_file(i))

\* The cleanup thread can take its next step in this state.
SweeperRuns == ENABLED (periodic_cleanup \/ cleanup_expired_files)

\* C22: while a /process request is inside agent.run, the cleanup thread,
\* unless an earlier failure ended it, can take its next step, and a
\* get, a list and a clearAll request can begin and be served: none of
\* them waits for the producer to return.
C22_ProducerBlocksOnlyItsRequest ==
    hpc = "pr_agent" =>
        /\ serr = "none" => SweeperRuns
        /\ StoreAnswers

\* The ids that were registered at some time.
IssuedIds == {issued[k] : k \in 1..Len(issued)}

\* The step condition of C27.
C27_Step ==
    /\ (SweeperStep \/ (hreq'.op = "cleanup" /\ HandlerStep)) =>
          /\ json_files' = json_files
          /\ disk' # disk =>
                /\ \A f \in disk \ disk' : f.id \in IssuedIds
                /\ \A f \in disk : f.id \notin IssuedIds => f \in disk'
    /\ temp_files' # temp_files =>
          \A i \in DOMAIN temp_files' :
              /\ temp_files'[i].path.id = i
              /\ i \in {issued'[k] : k \in 1..Len(issued')}

\* C27: a step of the cleanup thread or of /cleanup deletes only files
\* whose path was recorded in the registry; no registry entry ever holds
\* the path of a candidate the producer left; so the candidates that were
\* not selected and the scratch payload files are in TEMP_DIR after the
\* step as before it.
C27_OnlyRegisteredFilesDeleted == [][C27_Step]_vars

\* /cleanup returned after deleting the file of a registered artifact,
\* the cleanup thread evicted another, and TEMP_DIR still holds a candidate
\* that no request selected and a scratch payload file.
C27_Witness ==
    /\ hpc = "done"
    /\ hreq.op = "cleanup"
    /\ hres.success
    /\ hres.files_deleted = 1
    /\ Len(issued) = 2
    /\ temp_files = <<>>
    /\ \E f \in disk : f.id = 0
    /\ \A f \in disk : f.id = 0
    /\ json_files > 0
    /\ spc = "sleep"
    /\ Len(expired_files) = 1

\* The step condition of C23.
C23_Step ==
    temp_files' # temp_files =>
        /\ \A i \in (DOMAIN temp_files) \cap (DOMAIN temp_files') :
              /\ temp_files'[i].path = temp_files[i].path
              /\ temp_files'[i].filename = temp_files[i].filename
              /\ temp_files'[i].created_at = temp_files[i].created_at
              /\ temp_files'[i].original_json = temp_files[i].original_json
        /\ \A i \in (DOMAIN temp_files') \ (DOMAIN temp_files) :
              /\ i \notin IssuedIds
              /\ i >= nextId

\* C23: no step changes the path, the display filename, the creation
\* time or the preview of an entry that stays in the registry, and the id
\* under which a step registers an entry was never registered before.
C23_RecordImmutable == [][C23_Step]_vars

\* An artifact registered at hour 0 was downloaded two hours later, after
\* a second registration: its entry still has the creation time 0.
C23_Witness ==
    /\ hpc = "done"
    /\ hreq.op = "download"
    /\ hres.status = "200"
    /\ now = 2
    /\ Len(issued) = 2
    /\ hreq.file_id \in DOMAIN temp_files
    /\ temp_files[hreq.file_id].created_at = 0
    /\ temp_files[hreq.file_id].path = hres.path

\* The step condition of C25.
C25_Step ==
    /\ temp_files' # temp_files =>
          \A i \in (DOMAIN temp_files') \ (DOMAIN temp_files) :
              \E f \in disk' :
                  /\ Path(f.id, f.name) = temp_files'[i].path
                  /\ Len(f.book) >= 1
                  /\ f.book \in {ProducerBook, direct_json_to_excel(hreq'.data).book}
    /\ (Returns("process") /\ hres'.status = "200" /\ hres'.success) =>
          /\ hres'.file_id \in DOMAIN temp_files'
          /\ hres'.download_url = <<"/download/", hres'.file_id>>
          /\ hres'.file_name = temp_files'[hres'.file_id].filename
    /\ (hreq'.op = "process" /\ HandlerStep
          /\ ~(hpc' = "done" /\ hres'.status = "200" /\ hres'.success)) =>
          temp_files' = temp_files

\* C25: the step that adds a registry entry leaves the entry's workbook,
\* with all its sheets, at the entry's path; a success response of
\* /process names an id that is in the registry when the response is
\* returned, with the download reference "/download/<id>"; and no step of
\* a /process request other than the one that returns success changes the
\* registry, so a request that ends in failure leaves it as it was.
C25_RegisteredAfterWritten == [][C25_Step]_vars

\* A request failed after its fallback conversion failed, leaving the
\* registry as it was, with the artifact an earlier request moved to its
\* managed path and registered.
C25_Witness ==
    /\ hpc = "done"
    /\ hreq.op = "process"
    /\ hres.status = "200"
    /\ ~hres.success
    /\ hloc.direct_failures = 1
    /\ hloc.producer = "Exception"
    /\ DOMAIN temp_files = {1}
    /\ temp_files[1].filename \in CandNames
    /\ Exists(temp_files[1].path)
    /\ nextId = 2

\* The step condition of C26.
C26_Step ==
    (hpc # "idle" /\ hreq.op = "process" /\ HandlerStep /\ hpc' # "idle") =>
        /\ hloc'.files_before = hloc.files_before
        /\ \A p \in hloc.files_before :
              /\ p \in GlobXlsx => p \in GlobXlsx'
              /\ \A i \in (DOMAIN temp_files') \ (DOMAIN temp_files) :
                    /\ temp_files'[i].path # p
                    /\ p.id = 0 => temp_files'[i].filename # p.name
        /\ (hpc' = "done" /\ hres'.status = "200" /\ hres'.success
               /\ hres'.ai_analysis = "ai_response") =>
              /\ Path(0, hres'.file_name) \notin hloc.files_before
              /\ Path(0, hres'.file_name) \in hloc.produced

\* C26: a workbook that is in TEMP_DIR when a /process request takes
\* files_before stays at its path through every later step of that
\* request, whatever the producer writes: it is not the file the request
\* selects, it is not renamed, and no entry the request registers has its
\* path or, for a leftover candidate, its name.
C26_SnapshotFilesUntouched == [][C26_Step]_vars

\* The second request registered the candidate its own producer run wrote
\* while an older run's candidate, which was in its files_before and has
\* the later modification time, is still at its path.
C26_Witness ==
    /\ hpc = "done"
    /\ hreq.op = "process"
    /\ hres.status = "200"
    /\ hres.success
    /\ hres.ai_analysis = "ai_response"
    /\ hres.file_id = 2
    /\ hres.file_name = "a.xlsx"
    /\ Path(0, "b.xlsx") \in hloc.files_before
    /\ temp_files[1].path \in hloc.files_before
    /\ \E f \in disk, g \in disk :
          /\ f.id = 0 /\ f.name = "b.xlsx"
          /\ g.id = 2 /\ g.name = "a.xlsx"
          /\ f.mtime > g.mtime

\* A batch request has returned its response.
BatchDone == hpc = "done" /\ hreq.op = "batch"

\* The items of the batch whose call ended in success.
Succeeded == {k \in 1..Len(hloc.log) : hloc.log[k].success}

\* The item numbers the messages of a joined error text name, in order.
MessageFiles(text) == [k \in 1..((Len(text) + 1) \div 2) |-> text[2 * k - 1].file]

\* C28: while a batch of main_backup.py is processed, the calls that have
\* ended are those of the first items, in input order; when the batch
\* returns, every item's call has ended, whether or not an earlier one
\* failed; processed_count is the number of items whose call ended in
\* success, each of them with its own registered artifact; success is
\* true exactly when that number is positive; and error is None when no
\* item failed, and otherwise holds one message for each failed item, in
\* input order, joined by "; ".
C28_BatchCountsSuccesses ==
    /\ (hreq.op = "batch") =>
          /\ Len(hloc.log) = hloc.i
          /\ \A k \in 1..Len(hloc.log) : hloc.log[k].item = k
    /\ BatchDone =>
          /\ Len(hloc.log) = Len(hreq.json_files)
          /\ hres.processed_count = Cardinality(Succeeded)
          /\ hres.processed_count = nextId - hloc.first_id
          /\ \A k \in Succeeded :
                /\ hloc.log[k].file_id \in DOMAIN temp_files
                /\ Exists(temp_files[hloc.log[k].file_id].path)
                /\ \A j \in Succeeded : j # k => hloc.log[j].file_id # hloc.log[k].file_id
          /\ [k \in 1..Len(hres.processed_files) |-> hres.processed_files[k].file_id]
                = [k \in 1..(nextId - hloc.first_id) |-> hloc.first_id + k - 1]
          /\ hres.success <=> Succeeded # {}
          /\ hres.error.none <=> Cardinality(Succeeded) = Len(hreq.json_files)
          /\ LET files == MessageFiles(hres.error.text)
             IN  /\ Len(hres.error.text) = 0 <=> hres.error.none
                 /\ {files[k] : k \in 1..Len(files)} = (1..Len(hloc.log)) \ Succeeded
                 /\ \A j, k \in 1..Len(files) : j < k => files[j] < files[k]
                 /\ \A k \in 1..Len(hres.error.text) :
                       (k % 2 = 0) <=> hres.error.text[k] = Separator

\* A batch of three returned: the first item's JSON was invalid, the
\* second was converted and registered, the third failed in the producer.
C28_Witness ==
    /\ BatchDone
    /\ Len(hreq.json_files) = 3
    /\ ~hreq.json_files[1].valid
    /\ Succeeded = {2}
    /\ hres.success
    /\ hres.processed_count = 1
    /\ Len(hres.error.text) = 3
    /\ hres.error.text[3].text = "Processing failed: Agno AI processing failed"

====
